---- MODULE Spec2Model ----
(***************************************************************************)
(* Bookstore backend (Express + Prisma + PostgreSQL): the order engine,    *)
(* the catalog handlers and the statistics aggregator, as a state machine. *)
(*                                                                         *)
(* The stored rows (genres, books, orders, order_items) are the shared     *)
(* state.  Every request is served by one of the processes in Procs; an    *)
(* async handler is cut at its awaited storage calls, and the synchronous  *)
(* code between two awaits belongs to the action of the earlier await.     *)
(* Statements of prisma.$transaction write to a private buffer (txn) that  *)
(* becomes visible at commit; an UPDATE of a book row holds that row's     *)
(* lock until the transaction ends (PostgreSQL, READ COMMITTED).           *)
(*                                                                         *)
(* The repository holds two copies of the create-order handler and of the  *)
(* login handler; txBuild and loginBuild say which copy is deployed.       *)
(***************************************************************************)
EXTENDS Integers, Sequences, FiniteSets, TLC

\* ------------------------------------------------------------------ bounds
MaxStock == 2
MaxQty == 2
MaxItems == 2
MaxRequests == 2

\* ----------------------------------------------------------- finite universes
Procs == {"p1", "p2"}
Users == {"u1", "u2"}
GenreIds == {"g1", "g2"}
BookIds == {"b1", "b2"}
Names == {"n1", "n2"}
Titles == {"t1", "t2"}

Undefined == "undefined"
NoRow == [exists |-> FALSE]
NotFound == [found |-> FALSE]
NoResp == [status |-> 0, kind |-> "none"]
NoReq == [op |-> "none"]

VARIABLES
  loginBuild,   \* "sub": src/modules/auth/router.ts, "id": the other copy
  txBuild,      \* "decrement": src/modules/transaction/router.ts, "snapshot": the other copy
  genres,       \* GenreIds -> row or NoRow
  books,        \* BookIds -> row or NoRow
  orders,       \* sequence of Order rows, in insertion order
  order_items,  \* sequence of OrderItem rows, in insertion order
  pc,           \* Procs -> position of the handler the process runs
  req,          \* Procs -> the request being served (or last served)
  bookMap,      \* Procs -> the create-order handler's snapshot of the books
  txn,          \* Procs -> the open transaction's uncommitted writes
  resp,         \* Procs -> the last response sent
  snapAt,       \* Procs -> number of committed orders when bookMap was read
  served        \* number of requests the server has taken so far

vars == <<loginBuild, txBuild, genres, books, orders, order_items,
          pc, req, bookMap, txn, resp, snapAt, served>>

db == <<genres, books, orders, order_items>>
builds == <<loginBuild, txBuild>>

\* A handler starts on an idle process, while the run has requests left.
Take(p) ==
  /\ pc[p] = "idle"
  /\ served < MaxRequests
  /\ served' = served + 1

\* ------------------------------------------------------------- auth gateway
\* jwt.sign of POST /auth/login: the payload the token carries.
LoginToken(build, u) ==
  IF build = "sub"
    THEN [valid |-> TRUE, sub |-> u, id |-> Undefined]
    ELSE [valid |-> TRUE, sub |-> Undefined, id |-> u]

\* (mutant of RequireAuth: the payload is used without jwt.verify)
RequireAuthUnverified(token) == [ok |-> TRUE, id |-> token.id]

\* requireAuth: req.user.id is payload.id; no user when the token is absent
\* or fails verification.
RequireAuth(token) ==
  IF token.valid THEN [ok |-> TRUE, id |-> token.id]
                 ELSE [ok |-> FALSE, id |-> Undefined]

\* The client behind each process is logged in as one user.
UserOf(p) == IF p = "p1" THEN "u1" ELSE "u2"

\* ------------------------------------------------------------ pure helpers
RECURSIVE SumQuantity(_)
SumQuantity(items) ==
  IF items = <<>> THEN 0
  ELSE Head(items).quantity + SumQuantity(Tail(items))

RECURSIVE SumPrice(_, _)
SumPrice(items, bm) ==
  IF items = <<>> THEN 0
  ELSE bm[Head(items).book_id].price * Head(items).quantity
       + SumPrice(Tail(items), bm)

\* (mutant of CreateSchemaOk: quantity is not required to be positive)
CreateSchemaAnyQuantity(items) == Len(items) >= 1

\* createSchema.safeParse: a non-empty array of positive integer quantities.
CreateSchemaOk(items) ==
  /\ Len(items) >= 1
  /\ \A i \in 1..Len(items) : items[i].quantity > 0

\* (mutant of FindBooks: the deleted_at filter left out)
FindBooksUnfiltered(items, bks) ==
  [b \in BookIds |->
     IF /\ \E i \in 1..Len(items) : items[i].book_id = b
        /\ bks[b] # NoRow
       THEN [price |-> bks[b].price, stock_quantity |-> bks[b].stock_quantity]
       ELSE NotFound]

\* prisma.book.findMany({ id in bookIds, deleted_at: null }) as a Map by id.
FindBooks(items, bks) ==
  [b \in BookIds |->
     IF /\ \E i \in 1..Len(items) : items[i].book_id = b
        /\ bks[b] # NoRow
        /\ ~bks[b].deleted_at
       THEN [price |-> bks[b].price, stock_quantity |-> bks[b].stock_quantity]
       ELSE NotFound]

ItemMissing(it, bm) == bm[it.book_id] = NotFound
\* (mutant of ItemShort: the comparison off by one)
ItemShortOffByOne(it, bm) ==
  bm[it.book_id] # NotFound /\ bm[it.book_id].stock_quantity <= it.quantity
ItemShort(it, bm) ==
  bm[it.book_id] # NotFound /\ bm[it.book_id].stock_quantity < it.quantity

\* The validation loop returns at the first item that is missing or short;
\* 0 when every item passes.
FirstBad(items, bm) ==
  LET bad == {i \in 1..Len(items) :
                ItemMissing(items[i], bm) \/ ItemShort(items[i], bm)}
  IN IF bad = {} THEN 0
     ELSE CHOOSE i \in bad : \A j \in bad : i <= j

NoBookMap == [b \in BookIds |-> NotFound]

BadRequest(kind, b) == [status |-> 400, kind |-> kind, book |-> b]
Threw == [status |-> 500, kind |-> "threw"]

\* -------------------------------------------------------------- transactions
NoTxn == [open |-> FALSE, order |-> FALSE, items |-> <<>>, written |-> {},
          stock |-> [b \in BookIds |-> 0], idx |-> 0]

InTx(p) == txn[p].open
\* The row lock of book b is held by the open transaction that updated it.
LockedByOther(p, b) ==
  \E q \in Procs \ {p} : InTx(q) /\ b \in txn[q].written

\* The value tx.book.update writes for item it.
\* decrement: stock_quantity = stock_quantity - quantity, evaluated on the
\*   row as the transaction sees it (its own write, else the committed row).
\* snapshot: stock_quantity = b.stock_quantity - quantity, b from bookMap.
NewStock(build, it, bm, t, bks) ==
  IF build = "decrement"
    THEN (IF it.book_id \in t.written THEN t.stock[it.book_id]
          ELSE bks[it.book_id].stock_quantity) - it.quantity
    ELSE bm[it.book_id].stock_quantity - it.quantity

\* What storage holds after the transaction ends.
Committed(bks, t) ==
  [b \in BookIds |->
     IF b \notin t.written THEN bks[b]
     ELSE [bks[b] EXCEPT !.stock_quantity = t.stock[b]]]
\* (mutant of RolledBack: the statements were not run in a transaction)
NotRolledBack(bks, t) == Committed(bks, t)
RolledBack(bks, t) == bks

\* --------------------------------------------------------------------- Init
InitGenres ==
  [g \in GenreIds |-> [name |-> IF g = "g1" THEN "n1" ELSE "n2",
                       deleted_at |-> FALSE]]

\* The second book is on sale, soft-deleted, or was never created.
InitBook2 ==
  {[title |-> "t2", genre_id |-> "g2", price |-> 1,
    stock_quantity |-> 1, deleted_at |-> d] : d \in BOOLEAN} \cup {NoRow}

Init ==
  /\ loginBuild \in {"sub", "id"}
  /\ txBuild \in {"decrement", "snapshot"}
  /\ genres = InitGenres
  /\ \E r2 \in InitBook2 :
       books = [b \in BookIds |->
                  IF b = "b1"
                    THEN [title |-> "t1", genre_id |-> "g1", price |-> 2,
                          stock_quantity |-> MaxStock, deleted_at |-> FALSE]
                    ELSE r2]
  /\ orders = <<>>
  /\ order_items = <<>>
  /\ pc = [p \in Procs |-> "idle"]
  /\ req = [p \in Procs |-> NoReq]
  /\ bookMap = [p \in Procs |-> NoBookMap]
  /\ txn = [p \in Procs |-> NoTxn]
  /\ resp = [p \in Procs |-> NoResp]
  /\ snapAt = [p \in Procs |-> 0]
  /\ served = 0

\* ------------------------------------------------- POST /transactions
\* The request bodies tried: every list of at most MaxItems items that asks
\* for at most MaxQty units in all, the empty list and a zero quantity.
RECURSIVE ListsUpTo(_)
ListsUpTo(n) ==
  IF n = 0 THEN {<<>>}
  ELSE LET prev == ListsUpTo(n - 1)
       IN prev \cup {Append(l, it) : l \in {x \in prev : Len(x) = n - 1},
                                     it \in [book_id : BookIds, quantity : 1..MaxQty]}
ItemLists ==
  {l \in ListsUpTo(MaxItems) : SumQuantity(l) <= MaxQty}
  \cup {<<[book_id |-> "b1", quantity |-> 0]>>}

\* requireAuth, safeParse, findMany, the validation loop and the totals; on
\* success the handler opens the transaction.
CreateOrderValidate(p) ==
  /\ Take(p)
  /\ \E items \in ItemLists :
       LET user == RequireAuth(LoginToken(loginBuild, UserOf(p)))
           bm == FindBooks(items, books)
           bad == FirstBad(items, bm)
           r == [op |-> "order", user |-> user.id, items |-> items]
       IN /\ user.ok
          /\ req' = [req EXCEPT ![p] = r]
          /\ IF ~CreateSchemaOk(items)
               THEN /\ resp' = [resp EXCEPT ![p] = BadRequest("invalid_body", Undefined)]
                    /\ pc' = [pc EXCEPT ![p] = "responded"]
                    /\ UNCHANGED <<bookMap, txn, snapAt>>
             ELSE IF bad # 0
               THEN /\ resp' = [resp EXCEPT ![p] =
                         BadRequest(IF ItemMissing(items[bad], bm)
                                      THEN "book_not_found" ELSE "insufficient_stock",
                                    items[bad].book_id)]
                    /\ bookMap' = [bookMap EXCEPT ![p] = bm]
                    /\ snapAt' = [snapAt EXCEPT ![p] = Len(orders)]
                    /\ pc' = [pc EXCEPT ![p] = "responded"]
                    /\ UNCHANGED txn
             ELSE /\ bookMap' = [bookMap EXCEPT ![p] = bm]
                  /\ snapAt' = [snapAt EXCEPT ![p] = Len(orders)]
                  /\ txn' = [txn EXCEPT ![p] = [NoTxn EXCEPT !.open = TRUE]]
                  /\ pc' = [pc EXCEPT ![p] = "tx_order"]
                  /\ UNCHANGED resp
  /\ UNCHANGED <<db, builds>>

\* tx.order.create({ data: { user_id: req.user.id } }): user_id is required,
\* so an undefined id makes the call throw and the transaction roll back.
TxOrderCreate(p) ==
  /\ pc[p] = "tx_order"
  /\ IF req[p].user = Undefined
       THEN /\ books' = RolledBack(books, txn[p])
            /\ txn' = [txn EXCEPT ![p] = NoTxn]
            /\ resp' = [resp EXCEPT ![p] = Threw]
            /\ pc' = [pc EXCEPT ![p] = "responded"]
       ELSE /\ txn' = [txn EXCEPT ![p].order = TRUE, ![p].idx = 1]
            /\ pc' = [pc EXCEPT ![p] = "tx_item"]
            /\ UNCHANGED <<books, resp>>
  /\ UNCHANGED <<genres, orders, order_items, builds, req, bookMap, snapAt, served>>

\* tx.orderItem.create for items[idx].
TxItemCreate(p) ==
  /\ pc[p] = "tx_item"
  /\ txn' = [txn EXCEPT ![p].items = Append(@, req[p].items[txn[p].idx])]
  /\ pc' = [pc EXCEPT ![p] = "tx_update"]
  /\ UNCHANGED <<db, builds, req, bookMap, resp, snapAt, served>>

\* tx.book.update for items[idx]; waits while another transaction holds the row.
TxBookUpdate(p) ==
  /\ pc[p] = "tx_update"
  /\ LET it == req[p].items[txn[p].idx]
     IN /\ ~LockedByOther(p, it.book_id)
        /\ txn' = [txn EXCEPT
                     ![p].stock[it.book_id] =
                        NewStock(txBuild, it, bookMap[p], txn[p], books),
                     ![p].written = @ \cup {it.book_id},
                     ![p].idx = @ + 1]
        /\ pc' = [pc EXCEPT ![p] =
                    IF txn[p].idx = Len(req[p].items) THEN "tx_commit" ELSE "tx_item"]
  /\ UNCHANGED <<db, builds, req, bookMap, resp, snapAt, served>>

\* The callback returned: COMMIT, then created(res, ...).
TxCommit(p) ==
  /\ pc[p] = "tx_commit"
  /\ LET id == Len(orders) + 1
     IN /\ orders' = Append(orders, [id |-> id, user_id |-> req[p].user])
        /\ order_items' = order_items \o
             [i \in 1..Len(txn[p].items) |->
                [order_id |-> id, book_id |-> txn[p].items[i].book_id,
                 quantity |-> txn[p].items[i].quantity]]
        /\ books' = Committed(books, txn[p])
        /\ resp' = [resp EXCEPT ![p] =
                      [status |-> 201, kind |-> "created", transaction_id |-> id,
                       total_quantity |-> SumQuantity(req[p].items),
                       total_price |-> SumPrice(req[p].items, bookMap[p])]]
  /\ txn' = [txn EXCEPT ![p] = NoTxn]
  /\ pc' = [pc EXCEPT ![p] = "responded"]
  /\ UNCHANGED <<genres, builds, req, bookMap, snapAt, served>>

\* Two transactions each wait for a row the other holds: PostgreSQL aborts
\* one of them, its statement throws and the transaction rolls back.
WaitsFor(p, q) ==
  /\ pc[p] = "tx_update"
  /\ q # p /\ InTx(q)
  /\ req[p].items[txn[p].idx].book_id \in txn[q].written

TxDeadlockAbort(p) ==
  /\ \E q \in Procs : WaitsFor(p, q) /\ WaitsFor(q, p)
  /\ books' = RolledBack(books, txn[p])
  /\ txn' = [txn EXCEPT ![p] = NoTxn]
  /\ resp' = [resp EXCEPT ![p] = Threw]
  /\ pc' = [pc EXCEPT ![p] = "responded"]
  /\ UNCHANGED <<genres, orders, order_items, builds, req, bookMap, snapAt, served>>

\* ------------------------------------------------------------- catalog: books
Ok(kind) == [status |-> 200, kind |-> kind]
Created(kind, id) == [status |-> 201, kind |-> kind, id |-> id]
NotFoundResp(kind) == [status |-> 404, kind |-> kind]

Done(p, r) ==
  /\ resp' = [resp EXCEPT ![p] = r]
  /\ pc' = [pc EXCEPT ![p] = "responded"]

\* (mutant of Active: the deleted_at filter left out)
ActiveOrDeleted(rows, id) == rows[id] # NoRow
\* findFirst({ where: { id, deleted_at: null } }) on books or genres.
Active(rows, id) == rows[id] # NoRow /\ ~rows[id].deleted_at
\* findFirst({ where: { title, deleted_at: null } }).
TitleTaken(bks, title) ==
  \E b \in BookIds : Active(bks, b) /\ bks[b].title = title
\* findFirst({ where: { name, deleted_at: null } }), other than row `except`.
NameTaken(gs, name, except) ==
  \E g \in GenreIds \ {except} : Active(gs, g) /\ gs[g].name = name

FreeBooks == {b \in BookIds : books[b] = NoRow}
FreeGenres == {g \in GenreIds : genres[g] = NoRow}
Creating(op) == Cardinality({q \in Procs : req[q].op = op /\ pc[q] # "responded"})

\* createSchema of the book router, on the fields the model keeps.
BookSchemaOk(d) == d.title # "" /\ d.price >= 0 /\ d.stock_quantity >= 0

BookInputs ==
  [title : Titles \cup {""}, genre_id : GenreIds, price : {1},
   stock_quantity : {-1, MaxStock}]

\* POST /books: safeParse, then the genre lookup.
BookCreateGenre(p) ==
  /\ Take(p)
  /\ Cardinality(FreeBooks) > Creating("book_create")
  /\ \E d \in BookInputs :
       /\ req' = [req EXCEPT ![p] = [op |-> "book_create", data |-> d]]
       /\ IF ~BookSchemaOk(d) THEN Done(p, BadRequest("invalid_body", Undefined))
          ELSE IF ~Active(genres, d.genre_id)
            THEN Done(p, BadRequest("genre_not_found", Undefined))
          ELSE pc' = [pc EXCEPT ![p] = "book_create_dup"] /\ UNCHANGED resp
  /\ UNCHANGED <<db, builds, bookMap, txn, snapAt>>

\* POST /books: the duplicate-title lookup.
BookCreateDup(p) ==
  /\ pc[p] = "book_create_dup"
  /\ IF TitleTaken(books, req[p].data.title)
       THEN Done(p, BadRequest("duplicate_title", Undefined))
       ELSE pc' = [pc EXCEPT ![p] = "book_create"] /\ UNCHANGED resp
  /\ UNCHANGED <<db, builds, req, bookMap, txn, snapAt, served>>

\* POST /books: prisma.book.create.
BookCreate(p) ==
  /\ pc[p] = "book_create"
  /\ LET id == CHOOSE b \in FreeBooks : TRUE
         d == req[p].data
     IN /\ books' = [books EXCEPT ![id] =
                       [title |-> d.title, genre_id |-> d.genre_id, price |-> d.price,
                        stock_quantity |-> d.stock_quantity, deleted_at |-> FALSE]]
        /\ Done(p, Created("book_added", id))
  /\ UNCHANGED <<genres, orders, order_items, builds, req, bookMap, txn, snapAt, served>>

\* The schema of PATCH /books/:id, on the stock field.
PatchSchemaOk(d) == d.stock_quantity >= 0

\* PATCH /books/:id: safeParse, then the lookup of the active book.
BookPatchFind(p) ==
  /\ Take(p)
  /\ \E b \in BookIds, st \in {-1, 0, MaxStock} :
       LET d == [stock_quantity |-> st]
       IN /\ req' = [req EXCEPT ![p] = [op |-> "book_patch", id |-> b, data |-> d]]
          /\ IF ~PatchSchemaOk(d) THEN Done(p, BadRequest("invalid_body", Undefined))
             ELSE IF ~Active(books, b) THEN Done(p, NotFoundResp("book_not_found"))
             ELSE pc' = [pc EXCEPT ![p] = "book_patch"] /\ UNCHANGED resp
  /\ UNCHANGED <<db, builds, bookMap, txn, snapAt>>

\* PATCH /books/:id: prisma.book.update; waits for the row's lock.
BookPatchUpdate(p) ==
  /\ pc[p] = "book_patch"
  /\ ~LockedByOther(p, req[p].id)
  /\ books' = [books EXCEPT ![req[p].id].stock_quantity = req[p].data.stock_quantity]
  /\ Done(p, Ok("book_updated"))
  /\ UNCHANGED <<genres, orders, order_items, builds, req, bookMap, txn, snapAt, served>>

\* DELETE /books/:id: the lookup of the active book.
BookDeleteFind(p) ==
  /\ Take(p)
  /\ \E b \in BookIds :
       /\ req' = [req EXCEPT ![p] = [op |-> "book_delete", id |-> b]]
       /\ IF ~Active(books, b) THEN Done(p, NotFoundResp("book_not_found"))
          ELSE pc' = [pc EXCEPT ![p] = "book_delete"] /\ UNCHANGED resp
  /\ UNCHANGED <<db, builds, bookMap, txn, snapAt>>

\* DELETE /books/:id: update({ data: { deleted_at: new Date() } }).
BookDeleteUpdate(p) ==
  /\ pc[p] = "book_delete"
  /\ ~LockedByOther(p, req[p].id)
  /\ books' = [books EXCEPT ![req[p].id].deleted_at = TRUE]
  /\ Done(p, Ok("book_removed"))
  /\ UNCHANGED <<genres, orders, order_items, builds, req, bookMap, txn, snapAt, served>>

\* ------------------------------------------------------------ catalog: genres
GenreSchemaOk(name) == name # ""

\* POST /genres: safeParse, then the duplicate-name lookup.
GenreCreateFind(p) ==
  /\ Take(p)
  /\ Cardinality(FreeGenres) > Creating("genre_create")
  /\ \E name \in Names \cup {""} :
       /\ req' = [req EXCEPT ![p] = [op |-> "genre_create", name |-> name]]
       /\ IF ~GenreSchemaOk(name) THEN Done(p, BadRequest("invalid_body", Undefined))
          ELSE IF NameTaken(genres, name, Undefined)
            THEN Done(p, BadRequest("genre_exists", Undefined))
          ELSE pc' = [pc EXCEPT ![p] = "genre_create"] /\ UNCHANGED resp
  /\ UNCHANGED <<db, builds, bookMap, txn, snapAt>>

\* POST /genres: prisma.genre.create.
GenreCreate(p) ==
  /\ pc[p] = "genre_create"
  /\ LET id == CHOOSE g \in FreeGenres : TRUE
     IN /\ genres' = [genres EXCEPT ![id] = [name |-> req[p].name, deleted_at |-> FALSE]]
        /\ Done(p, Created("genre_created", id))
  /\ UNCHANGED <<books, orders, order_items, builds, req, bookMap, txn, snapAt, served>>

\* PATCH /genres/:id: safeParse, then the lookup of the active genre.
GenrePatchFind(p) ==
  /\ Take(p)
  /\ \E g \in GenreIds, name \in Names \cup {""} :
       /\ req' = [req EXCEPT ![p] = [op |-> "genre_patch", id |-> g, name |-> name]]
       /\ IF ~GenreSchemaOk(name) THEN Done(p, BadRequest("invalid_body", Undefined))
          ELSE IF ~Active(genres, g) THEN Done(p, NotFoundResp("genre_not_found"))
          ELSE pc' = [pc EXCEPT ![p] = "genre_patch_dup"] /\ UNCHANGED resp
  /\ UNCHANGED <<db, builds, bookMap, txn, snapAt>>

\* PATCH /genres/:id: the duplicate-name lookup among the other genres.
GenrePatchDup(p) ==
  /\ pc[p] = "genre_patch_dup"
  /\ IF NameTaken(genres, req[p].name, req[p].id)
       THEN Done(p, BadRequest("genre_exists", Undefined))
       ELSE pc' = [pc EXCEPT ![p] = "genre_patch"] /\ UNCHANGED resp
  /\ UNCHANGED <<db, builds, req, bookMap, txn, snapAt, served>>

\* PATCH /genres/:id: prisma.genre.update.
GenrePatchUpdate(p) ==
  /\ pc[p] = "genre_patch"
  /\ genres' = [genres EXCEPT ![req[p].id].name = req[p].name]
  /\ Done(p, Ok("genre_updated"))
  /\ UNCHANGED <<books, orders, order_items, builds, req, bookMap, txn, snapAt, served>>

\* DELETE /genres/:id: the lookup of the active genre.
GenreDeleteFind(p) ==
  /\ Take(p)
  /\ \E g \in GenreIds :
       /\ req' = [req EXCEPT ![p] = [op |-> "genre_delete", id |-> g]]
       /\ IF ~Active(genres, g) THEN Done(p, NotFoundResp("genre_not_found"))
          ELSE pc' = [pc EXCEPT ![p] = "genre_delete"] /\ UNCHANGED resp
  /\ UNCHANGED <<db, builds, bookMap, txn, snapAt>>

\* (mutant of GenreDeleteUpdate: the delete cascades to the genre's books)
GenreDeleteCascade(p) ==
  /\ pc[p] = "genre_delete"
  /\ genres' = [genres EXCEPT ![req[p].id].deleted_at = TRUE]
  /\ books' = [b \in BookIds |->
                 IF books[b] # NoRow /\ books[b].genre_id = req[p].id
                   THEN [books[b] EXCEPT !.deleted_at = TRUE] ELSE books[b]]
  /\ Done(p, Ok("genre_removed"))
  /\ UNCHANGED <<orders, order_items, builds, req, bookMap, txn, snapAt, served>>

\* DELETE /genres/:id: update({ data: { deleted_at: new Date() } }).
GenreDeleteUpdate(p) ==
  /\ pc[p] = "genre_delete"
  /\ genres' = [genres EXCEPT ![req[p].id].deleted_at = TRUE]
  /\ Done(p, Ok("genre_removed"))
  /\ UNCHANGED <<books, orders, order_items, builds, req, bookMap, txn, snapAt, served>>

\* ------------------------------------------- GET /transactions/statistics
Null == [null |-> TRUE]

\* include: { items: ... }: the OrderItem rows of one order, in row order.
ItemsOf(items, oid) == SelectSeq(items, LAMBDA it : it.order_id = oid)

\* (mutant of OrderTotal: the quantity is left out of the product)
RECURSIVE OrderTotalIgnoringQuantity(_, _)
OrderTotalIgnoringQuantity(its, bks) ==
  IF its = <<>> THEN 0
  ELSE bks[Head(its).book_id].price + OrderTotalIgnoringQuantity(Tail(its), bks)

\* o.items.reduce((s, it) => s + Number(it.book.price) * it.quantity, 0)
RECURSIVE OrderTotal(_, _)
OrderTotal(its, bks) ==
  IF its = <<>> THEN 0
  ELSE bks[Head(its).book_id].price * Head(its).quantity + OrderTotal(Tail(its), bks)

RECURSIVE SumTotals(_, _, _)
SumTotals(ords, items, bks) ==
  IF ords = <<>> THEN 0
  ELSE OrderTotal(ItemsOf(items, Head(ords).id), bks) + SumTotals(Tail(ords), items, bks)

\* totals.length ? sum / totals.length : 0, kept as the exact quotient.
AverageNominal(ords, items, bks) ==
  IF Len(ords) = 0 THEN [num |-> 0, den |-> 1]
  ELSE [num |-> SumTotals(ords, items, bks), den |-> Len(ords)]

\* The keys of genreOrders in insertion order: a genre enters the Map when
\* the loop over the orders and their items first meets one of its books.
RECURSIVE SeenGenres(_, _, _)
SeenGenres(its, bks, acc) ==
  IF its = <<>> THEN acc
  ELSE LET gid == bks[Head(its).book_id].genre_id
       IN SeenGenres(Tail(its), bks,
                     IF \E i \in 1..Len(acc) : acc[i] = gid THEN acc ELSE Append(acc, gid))

RECURSIVE GenreKeys(_, _, _, _)
GenreKeys(ords, items, bks, acc) ==
  IF ords = <<>> THEN acc
  ELSE GenreKeys(Tail(ords), items, bks,
                 SeenGenres(ItemsOf(items, Head(ords).id), bks, acc))

\* The inner loop over one order's items: the order's id is added to the
\* Set of each genre the first time `seen` meets it.
RECURSIVE AddItems(_, _, _, _, _)
AddItems(its, bks, oid, seen, acc) ==
  IF its = <<>> THEN [seen |-> seen, acc |-> acc]
  ELSE LET gid == bks[Head(its).book_id].genre_id
       IN IF gid \in seen THEN AddItems(Tail(its), bks, oid, seen, acc)
          ELSE AddItems(Tail(its), bks, oid, seen \cup {gid},
                        [acc EXCEPT ![gid] = @ \cup {oid}])

\* (mutant of GenreOrders: `seen` is declared once, outside the loop)
RECURSIVE GenreOrdersSeenHoisted(_, _, _, _, _)
GenreOrdersSeenHoisted(ords, items, bks, seen, acc) ==
  IF ords = <<>> THEN acc
  ELSE LET r == AddItems(ItemsOf(items, Head(ords).id), bks, Head(ords).id, seen, acc)
       IN GenreOrdersSeenHoisted(Tail(ords), items, bks, r.seen, r.acc)

\* The outer loop over the orders, each with a new empty `seen`; genreOrders
\* maps a genre id to the Set of order ids (empty: not in the Map).
RECURSIVE GenreOrders(_, _, _, _, _)
GenreOrders(ords, items, bks, seen, acc) ==
  IF ords = <<>> THEN acc
  ELSE LET r == AddItems(ItemsOf(items, Head(ords).id), bks, Head(ords).id, {}, acc)
       IN GenreOrders(Tail(ords), items, bks, {}, r.acc)

\* genreOrders.get(gid).size.
GenreCount(ords, items, bks, gid) ==
  Cardinality(GenreOrders(ords, items, bks, {}, [g \in GenreIds |-> {}])[gid])

\* (mutant of PickGenre: >= and <=, so the last genre wins a tie)
RECURSIVE PickGenreLastWins(_, _, _, _)
PickGenreLastWins(keys, entry, best, greater) ==
  IF keys = <<>> THEN best
  ELSE LET e == entry[Head(keys)]
           take == \/ best = Null
                   \/ (best # Null /\ IF greater THEN e.count >= best.count
                                                  ELSE e.count <= best.count)
       IN PickGenreLastWins(Tail(keys), entry, IF take THEN e ELSE best, greater)

\* The loop over genreOrders.entries(): a later genre replaces `most` only
\* with a greater count, and `least` only with a smaller one.
RECURSIVE PickGenre(_, _, _, _)
PickGenre(keys, entry, best, greater) ==
  IF keys = <<>> THEN best
  ELSE LET e == entry[Head(keys)]
           take == \/ best = Null
                   \/ (best # Null /\ IF greater THEN e.count > best.count
                                                  ELSE e.count < best.count)
       IN PickGenre(Tail(keys), entry, IF take THEN e ELSE best, greater)

Statistics(gs, bks, ords, items) ==
  LET keys == GenreKeys(ords, items, bks, <<>>)
      entry == [g \in GenreIds |->
                  [genre_id |-> g,
                   name |-> IF gs[g] = NoRow THEN g ELSE gs[g].name,
                   count |-> GenreCount(ords, items, bks, g)]]
  IN [total_transactions |-> Len(ords),
      average_nominal_per_transaction |-> AverageNominal(ords, items, bks),
      most_sold_genre |-> PickGenre(keys, entry, Null, TRUE),
      least_sold_genre |-> PickGenre(keys, entry, Null, FALSE)]

\* ------------------------------------------------- GET /transactions/...
\* The path below /transactions: the text of its one segment, or the order id
\* the segment spells (text "").
StatisticsPath == [text |-> "statistics", num |-> 0]
OrderPath(n) == [text |-> "", num |-> n]

\* The GET routes of the transaction router with a path parameter or a
\* literal segment, in the order the router registers them.
GetRoutes(build) ==
  IF build = "decrement" THEN <<"/:id">> ELSE <<"/:id", "/statistics">>

\* Express matches a literal segment by equality and a parameter by anything.
RouteMatches(route, path) ==
  IF route = "/statistics" THEN path.text = "statistics" ELSE TRUE

\* The router runs the first registered route that matches.
RECURSIVE Dispatch(_, _)
Dispatch(routes, path) ==
  IF routes = <<>> THEN "none"
  ELSE IF RouteMatches(Head(routes), path) THEN Head(routes)
  ELSE Dispatch(Tail(routes), path)

\* router.get("/statistics"): one findMany, then the computation.
StatisticsHandler(p) ==
  Done(p, [status |-> 200, kind |-> "statistics",
           data |-> Statistics(genres, books, orders, order_items)])

\* router.get("/:id"): findUnique({ where: { id: req.params.id } }).
DetailHandler(p, path) ==
  IF path.text = "" /\ \E i \in 1..Len(orders) : orders[i].id = path.num
    THEN Done(p, [status |-> 200, kind |-> "transaction_detail", id |-> path.num,
                  items |-> ItemsOf(order_items, path.num)])
    ELSE Done(p, NotFoundResp("transaction_not_found"))

\* GET /transactions/<segment>.
TransactionGet(p) ==
  /\ Take(p)
  /\ \E path \in {StatisticsPath} \cup {OrderPath(n) : n \in 1..(Len(orders) + 1)} :
       LET route == Dispatch(GetRoutes(txBuild), path)
       IN /\ req' = [req EXCEPT ![p] = [op |-> "tx_get", path |-> path]]
          /\ IF route = "/statistics" THEN StatisticsHandler(p)
             ELSE IF route = "/:id" THEN DetailHandler(p, path)
             ELSE Done(p, NotFoundResp("no_route"))
  /\ UNCHANGED <<db, builds, bookMap, txn, snapAt>>

\* ------------------------------------------------------------ requireAuth
\* No Authorization header, and a token whose signature does not verify.
NoToken == [valid |-> FALSE, sub |-> Undefined, id |-> Undefined]
ForgedToken == [valid |-> FALSE, sub |-> Undefined, id |-> "u1"]
BadTokens == {NoToken, ForgedToken}
Tokens(p) == BadTokens \cup {LoginToken(loginBuild, UserOf(p))}

Unauthorized(kind) == [status |-> 401, kind |-> kind]

\* router.use(requireAuth): next() runs the handler; otherwise requireAuth
\* answers 401 and the handler is never called.
Guard(p, tok, handler) ==
  IF RequireAuth(tok).ok THEN handler
  ELSE /\ Take(p)
       /\ req' = [req EXCEPT ![p] = [op |-> "rejected"]]
       /\ Done(p, Unauthorized(IF tok = NoToken THEN "missing_token"
                                                ELSE "invalid_token"))
       /\ UNCHANGED <<db, builds, bookMap, txn, snapAt>>

\* The first step of a request to a route behind requireAuth.
GenreRequest(p, tok) ==
  \/ Guard(p, tok, GenreCreateFind(p))
  \/ Guard(p, tok, GenrePatchFind(p))
  \/ Guard(p, tok, GenreDeleteFind(p))

BookRequest(p, tok) ==
  \/ Guard(p, tok, BookCreateGenre(p))
  \/ Guard(p, tok, BookPatchFind(p))
  \/ Guard(p, tok, BookDeleteFind(p))

TransactionRequest(p, tok) ==
  \/ Guard(p, tok, CreateOrderValidate(p))
  \/ Guard(p, tok, TransactionGet(p))

\* GET /auth/me, behind requireAuth: findUnique by req.user.id.
MeHandler(p, tok) ==
  /\ Take(p)
  /\ req' = [req EXCEPT ![p] = [op |-> "me"]]
  /\ IF RequireAuth(tok).id = Undefined THEN Done(p, Threw)
     ELSE Done(p, [status |-> 200, kind |-> "me", id |-> RequireAuth(tok).id])
  /\ UNCHANGED <<db, builds, bookMap, txn, snapAt>>

AuthMe(p, tok) == Guard(p, tok, MeHandler(p, tok))

\* The routes mounted without requireAuth; they never look at the token.
\* User rows are not among the stored data kept here, so the outcome of the
\* email and password lookups is left open.
Health(p) ==
  /\ Take(p)
  /\ req' = [req EXCEPT ![p] = [op |-> "health"]]
  /\ Done(p, Ok("health"))
  /\ UNCHANGED <<db, builds, bookMap, txn, snapAt>>

AuthRegister(p) ==
  /\ Take(p)
  /\ req' = [req EXCEPT ![p] = [op |-> "register"]]
  /\ \E r \in {BadRequest("email_taken", Undefined), Created("registered", UserOf(p))} :
       Done(p, r)
  /\ UNCHANGED <<db, builds, bookMap, txn, snapAt>>

AuthLogin(p) ==
  /\ Take(p)
  /\ req' = [req EXCEPT ![p] = [op |-> "login"]]
  /\ \E r \in {Unauthorized("invalid_credentials"),
               [status |-> 200, kind |-> "login",
                access_token |-> LoginToken(loginBuild, UserOf(p))]} :
       Done(p, r)
  /\ UNCHANGED <<db, builds, bookMap, txn, snapAt>>

PublicRequest(p) == Health(p) \/ AuthRegister(p) \/ AuthLogin(p)

\* res.status(..).json(..) has sent the response: the request and everything
\* the handler held are gone, and the process serves the next request.
Respond(p) ==
  /\ pc[p] = "responded"
  /\ pc' = [pc EXCEPT ![p] = "idle"]
  /\ req' = [req EXCEPT ![p] = NoReq]
  /\ resp' = [resp EXCEPT ![p] = NoResp]
  /\ bookMap' = [bookMap EXCEPT ![p] = NoBookMap]
  /\ snapAt' = [snapAt EXCEPT ![p] = 0]
  /\ UNCHANGED <<db, builds, txn, served>>

Next ==
  \E p \in Procs :
    \/ Respond(p)
    \/ CreateOrderValidate(p)
    \/ TxOrderCreate(p)
    \/ TxItemCreate(p)
    \/ TxBookUpdate(p)
    \/ TxCommit(p)
    \/ TxDeadlockAbort(p)
    \/ BookPatchFind(p)
    \/ BookPatchUpdate(p)

Spec == Init /\ [][Next]_vars

\* ------------------------------------------------------- the catalog alone
\* The catalog handlers run against an empty store, or against the store two
\* committed orders for the first book have left behind.
EmptyStore ==
  /\ genres = [g \in GenreIds |-> NoRow]
  /\ books = [b \in BookIds |-> NoRow]
  /\ orders = <<>>
  /\ order_items = <<>>

SoldStore ==
  /\ genres = InitGenres
  /\ books = [b \in BookIds |->
                IF b = "b1"
                  THEN [title |-> "t1", genre_id |-> "g1", price |-> 2,
                        stock_quantity |-> MaxStock - 2, deleted_at |-> FALSE]
                  ELSE NoRow]
  /\ orders = <<[id |-> 1, user_id |-> "u1"], [id |-> 2, user_id |-> "u2"]>>
  /\ order_items = <<[order_id |-> 1, book_id |-> "b1", quantity |-> 1],
                     [order_id |-> 2, book_id |-> "b1", quantity |-> 1]>>

InitCatalog ==
  /\ loginBuild = "id"
  /\ txBuild = "decrement"
  /\ EmptyStore \/ SoldStore
  /\ pc = [p \in Procs |-> "idle"]
  /\ req = [p \in Procs |-> NoReq]
  /\ bookMap = [p \in Procs |-> NoBookMap]
  /\ txn = [p \in Procs |-> NoTxn]
  /\ resp = [p \in Procs |-> NoResp]
  /\ snapAt = [p \in Procs |-> 0]
  /\ served = 0

NextCatalog ==
  \E p \in Procs :
    \/ Respond(p)
    \/ GenreCreateFind(p)
    \/ GenreCreate(p)
    \/ GenrePatchFind(p)
    \/ GenrePatchDup(p)
    \/ GenrePatchUpdate(p)
    \/ GenreDeleteFind(p)
    \/ GenreDeleteUpdate(p)
    \/ BookCreateGenre(p)
    \/ BookCreateDup(p)
    \/ BookCreate(p)
    \/ BookDeleteFind(p)
    \/ BookDeleteUpdate(p)

SpecCatalog == InitCatalog /\ [][NextCatalog]_vars

\* ------------------------------------------------- create-order alone
\* The create-order handler with no catalog request beside it.
NextOrders ==
  \E p \in Procs :
    \/ Respond(p)
    \/ CreateOrderValidate(p)
    \/ TxOrderCreate(p)
    \/ TxItemCreate(p)
    \/ TxBookUpdate(p)
    \/ TxCommit(p)
    \/ TxDeadlockAbort(p)

SpecOrders == Init /\ [][NextOrders]_vars

\* ------------------------------------------------------ the whole application
\* Every router behind its middleware, with the transaction router that
\* registers the statistics route, over an empty store, a store with both
\* books on sale and the store two committed orders have left behind.
StockedStore ==
  /\ genres = InitGenres
  /\ books = [b \in BookIds |->
                IF b = "b1"
                  THEN [title |-> "t1", genre_id |-> "g1", price |-> 2,
                        stock_quantity |-> MaxStock, deleted_at |-> FALSE]
                  ELSE [title |-> "t2", genre_id |-> "g2", price |-> 1,
                        stock_quantity |-> 1, deleted_at |-> FALSE]]
  /\ orders = <<>>
  /\ order_items = <<>>

InitApp ==
  /\ loginBuild = "id"
  /\ txBuild = "snapshot"
  /\ EmptyStore \/ StockedStore \/ SoldStore
  /\ pc = [p \in Procs |-> "idle"]
  /\ req = [p \in Procs |-> NoReq]
  /\ bookMap = [p \in Procs |-> NoBookMap]
  /\ txn = [p \in Procs |-> NoTxn]
  /\ resp = [p \in Procs |-> NoResp]
  /\ snapAt = [p \in Procs |-> 0]
  /\ served = 0

NextApp ==
  \E p \in Procs :
    \/ Respond(p)
    \/ \E tok \in Tokens(p) :
         \/ GenreRequest(p, tok)
         \/ BookRequest(p, tok)
         \/ TransactionRequest(p, tok)
         \/ AuthMe(p, tok)
    \/ PublicRequest(p)
    \/ GenreCreate(p) \/ GenrePatchDup(p) \/ GenrePatchUpdate(p) \/ GenreDeleteUpdate(p)
    \/ BookCreateDup(p) \/ BookCreate(p) \/ BookPatchUpdate(p) \/ BookDeleteUpdate(p)
    \/ TxOrderCreate(p) \/ TxItemCreate(p) \/ TxBookUpdate(p) \/ TxCommit(p)
    \/ TxDeadlockAbort(p)

SpecApp == InitApp /\ [][NextApp]_vars

\* ------------------------------------------------- the statistics handler
\* The handler of GET /transactions/statistics run over every ledger of at
\* most MaxRequests orders that create-order requests can have committed,
\* with the books in either genre.
ValidLists == {l \in ItemLists : CreateSchemaOk(l)}

RECURSIVE LedgersUpTo(_)
LedgersUpTo(n) ==
  IF n = 0 THEN {<<>>}
  ELSE LET prev == LedgersUpTo(n - 1)
       IN prev \cup {Append(l, its) : l \in {x \in prev : Len(x) = n - 1},
                                      its \in ValidLists}

\* The OrderItem rows of the orders i, i + 1, ... of a ledger, in row order.
RECURSIVE ItemRows(_, _)
ItemRows(ledger, i) ==
  IF i > Len(ledger) THEN <<>>
  ELSE [k \in 1..Len(ledger[i]) |->
          [order_id |-> i, book_id |-> ledger[i][k].book_id,
           quantity |-> ledger[i][k].quantity]]
       \o ItemRows(ledger, i + 1)

InitStats ==
  /\ loginBuild = "id"
  /\ txBuild = "snapshot"
  /\ genres = InitGenres
  /\ \E gmap \in [BookIds -> GenreIds] :
       books = [b \in BookIds |->
                  [title |-> IF b = "b1" THEN "t1" ELSE "t2", genre_id |-> gmap[b],
                   price |-> IF b = "b1" THEN 2 ELSE 1,
                   stock_quantity |-> 0, deleted_at |-> FALSE]]
  /\ \E ledger \in LedgersUpTo(MaxRequests) :
       /\ orders = [i \in 1..Len(ledger) |->
                      [id |-> i, user_id |-> IF i = 1 THEN "u1" ELSE "u2"]]
       /\ order_items = ItemRows(ledger, 1)
  /\ pc = [p \in Procs |-> "idle"]
  /\ req = [p \in Procs |-> NoReq]
  /\ bookMap = [p \in Procs |-> NoBookMap]
  /\ txn = [p \in Procs |-> NoTxn]
  /\ resp = [p \in Procs |-> NoResp]
  /\ snapAt = [p \in Procs |-> 0]
  /\ served = 0

GetStatistics(p) ==
  /\ Take(p)
  /\ req' = [req EXCEPT ![p] = [op |-> "statistics"]]
  /\ StatisticsHandler(p)
  /\ UNCHANGED <<db, builds, bookMap, txn, snapAt>>

NextStats == \E p \in Procs : GetStatistics(p) \/ Respond(p)

SpecStats == InitStats /\ [][NextStats]_vars

\* ===================================================================== claims
OrderProcs == {p \in Procs : req[p].op = "order"}
Accepted(p) == pc[p] = "responded" /\ req[p].op = "order" /\ resp[p].kind = "created"

\* The units of book b a list of items asks for.
RECURSIVE Requested(_, _)
Requested(items, b) ==
  IF items = <<>> THEN 0
  ELSE (IF Head(items).book_id = b THEN Head(items).quantity ELSE 0)
       + Requested(Tail(items), b)

\* C1: in every reachable state every book's stock_quantity is >= 0.
C1_StockNeverNegative ==
  \A b \in BookIds : books[b] # NoRow => books[b].stock_quantity >= 0

\* C2: of two create-order requests that ran concurrently (each read its
\* snapshot before the other committed) for one book, each quantity fitting
\* the stock they both read and the two together exceeding it, not both are
\* answered 201, and the book's stock is not negative.
Overlapped(p, q) ==
  /\ snapAt[p] < resp[q].transaction_id
  /\ snapAt[q] < resp[p].transaction_id

Oversold(p, q, b) ==
  /\ bookMap[p][b] # NotFound /\ bookMap[q][b] # NotFound
  /\ bookMap[p][b].stock_quantity = bookMap[q][b].stock_quantity
  /\ Requested(req[p].items, b) > 0 /\ Requested(req[q].items, b) > 0
  /\ Requested(req[p].items, b) <= bookMap[p][b].stock_quantity
  /\ Requested(req[q].items, b) <= bookMap[p][b].stock_quantity
  /\ Requested(req[p].items, b) + Requested(req[q].items, b)
       > bookMap[p][b].stock_quantity

C2_OneOfTwoSucceeds ==
  \A p \in Procs, q \in Procs, b \in BookIds :
    ~(p # q /\ Accepted(p) /\ Accepted(q) /\ Overlapped(p, q) /\ Oversold(p, q, b))

\* C3: every step either leaves the orders, the order items and the stock of
\* every book not being patched as they are, or is the commit of one
\* create-order request that adds its Order row, one OrderItem row per item
\* and the value of each of its stock updates, all at once; a transaction
\* whose statement throws leaves orders, order items and books unchanged.
WholeOrderStep(p) ==
  /\ pc[p] = "tx_commit"
  /\ Len(orders') = Len(orders) + 1
  /\ SubSeq(orders', 1, Len(orders)) = orders
  /\ Len(order_items') = Len(order_items) + Len(req[p].items)
  /\ SubSeq(order_items', 1, Len(order_items)) = order_items
  /\ \A i \in 1..Len(req[p].items) :
       order_items'[Len(order_items) + i] =
         [order_id |-> orders'[Len(orders')].id,
          book_id |-> req[p].items[i].book_id,
          quantity |-> req[p].items[i].quantity]
  /\ \A b \in BookIds :
       IF Requested(req[p].items, b) > 0
         THEN books'[b] = [books[b] EXCEPT !.stock_quantity = txn[p].stock[b]]
         ELSE books'[b] = books[b]

NoOrderStep ==
  /\ orders' = orders
  /\ order_items' = order_items
  /\ \A b \in BookIds :
       \/ books'[b] = books[b]
       \/ \E p \in Procs : pc[p] = "book_patch" /\ req[p].id = b

C3_AllOrNothing ==
  [][/\ NoOrderStep \/ \E p \in Procs : WholeOrderStep(p)
     /\ \A p \in Procs :
          (InTx(p) /\ resp'[p] = Threw) =>
             /\ books' = books /\ orders' = orders /\ order_items' = order_items
             /\ ~InTx(p)']_vars

\* C3 witness: a transaction was aborted after it had created its Order row,
\* an OrderItem row and a stock update (the login build that sets user ids
\* lets the transaction get that far).
C3_Witness ==
  \E p \in Procs :
    /\ pc[p] = "responded" /\ req[p].op = "order" /\ resp[p] = Threw
    /\ req[p].user # Undefined
    /\ orders = <<>>

\* C4: when an accepted request commits, the quantities of the OrderItem rows
\* it created add up to the total_quantity it returns, and every book it
\* names (whose stock nobody changed since the request read it) ends with its
\* stock before the order minus all the units the request asked of it.
C4_DecrementByRequested ==
  [][\A p \in Procs :
       (pc[p] = "tx_commit" /\ pc'[p] = "responded") =>
          /\ resp'[p].total_quantity =
               SumQuantity(ItemsOf(order_items', resp'[p].transaction_id))
          /\ \A b \in BookIds :
               (/\ Requested(req[p].items, b) > 0
                /\ books[b].stock_quantity = bookMap[p][b].stock_quantity)
               => books'[b].stock_quantity =
                    books[b].stock_quantity - Requested(req[p].items, b)]_vars

\* What the stored books say about an item when the handler reads them.
Gone(it) == books[it.book_id] = NoRow \/ books[it.book_id].deleted_at
Short(it) == ~Gone(it) /\ it.quantity > books[it.book_id].stock_quantity
Offending(it) == Gone(it) \/ Short(it)
Arrives(p) ==
  /\ pc[p] = "idle" /\ req'[p].op = "order"
  /\ req'[p].items # <<>>
  /\ \A i \in 1..Len(req'[p].items) : req'[p].items[i].quantity > 0
Rejected(p) ==
  /\ pc'[p] = "responded" /\ resp'[p].status = 400
  /\ ~InTx(p)' /\ db' = db

\* C5 as stated: a request with an item that asks for more than its book's
\* current stock is answered 400 with an error naming that item's book, and
\* the storage is unchanged.
C5_Original ==
  [][\A p \in Procs :
       Arrives(p) =>
         \A i \in 1..Len(req'[p].items) :
            Short(req'[p].items[i]) =>
               /\ Rejected(p)
               /\ resp'[p].kind = "insufficient_stock"
               /\ resp'[p].book = req'[p].items[i].book_id]_vars

\* C5 amended: such a request is answered 400 and the storage is unchanged;
\* the error names the book of the first item in list order that is missing,
\* deleted or short, as an insufficient-stock error when that item is short.
C5_RejectsShortItem ==
  [][\A p \in Procs :
       (Arrives(p) /\ \E i \in 1..Len(req'[p].items) : Short(req'[p].items[i])) =>
          /\ Rejected(p)
          /\ \E i \in 1..Len(req'[p].items) :
               /\ Offending(req'[p].items[i])
               /\ \A j \in 1..(i - 1) : ~Offending(req'[p].items[j])
               /\ resp'[p].book = req'[p].items[i].book_id
               /\ resp'[p].kind = IF Short(req'[p].items[i])
                                    THEN "insufficient_stock"
                                    ELSE "book_not_found"]_vars

\* C5 witness: an order for a book that an earlier committed order brought
\* to stock 0 was rejected with an insufficient-stock error naming it.
C5_Witness ==
  \E p \in Procs :
    /\ pc[p] = "responded" /\ req[p].op = "order"
    /\ resp[p].kind = "insufficient_stock"
    /\ books[resp[p].book].stock_quantity = 0
    /\ \E k \in 1..Len(order_items) : order_items[k].book_id = resp[p].book
    /\ \A q \in Procs : req[q].op # "book_patch"

\* C6 as stated: a request with an item whose book is missing or soft-deleted
\* is answered 400 before any transaction, with an error naming that item's
\* book, and nothing is stored.
C6_Original ==
  [][\A p \in Procs :
       Arrives(p) =>
         \A i \in 1..Len(req'[p].items) :
            Gone(req'[p].items[i]) =>
               /\ Rejected(p)
               /\ resp'[p].kind = "book_not_found"
               /\ resp'[p].book = req'[p].items[i].book_id]_vars

\* C6 amended: such a request is answered 400 before any transaction and
\* nothing is stored, whatever its other items are; the error names the book
\* of the first item in list order that is missing, deleted or short, as a
\* not-found error when that item's book is missing or deleted.
C6_RejectsGoneBook ==
  [][\A p \in Procs :
       (Arrives(p) /\ \E i \in 1..Len(req'[p].items) : Gone(req'[p].items[i])) =>
          /\ Rejected(p)
          /\ \E i \in 1..Len(req'[p].items) :
               /\ Offending(req'[p].items[i])
               /\ \A j \in 1..(i - 1) : ~Offending(req'[p].items[j])
               /\ resp'[p].book = req'[p].items[i].book_id
               /\ (Gone(req'[p].items[i]) <=> resp'[p].kind = "book_not_found")]_vars

\* C6 witness: a request naming a valid item first and a missing or deleted
\* book second was rejected with a not-found error naming the second book.
C6_Witness ==
  \E p \in Procs :
    /\ pc[p] = "responded" /\ req[p].op = "order"
    /\ resp[p].kind = "book_not_found"
    /\ Len(req[p].items) = 2
    /\ req[p].items[1].book_id # resp[p].book
    /\ req[p].items[2].book_id = resp[p].book
    /\ orders = <<>> /\ order_items = <<>>

\* C7: a create-order request carrying the login token of user U runs with
\* req.user.id = U, and the Order row it creates has user_id = U.
C7_OrderOwnedByCaller ==
  /\ \A p \in OrderProcs : InTx(p) => req[p].user = UserOf(p)
  /\ \A p \in Procs : Accepted(p) =>
       \E i \in 1..Len(orders) :
          orders[i].id = resp[p].transaction_id /\ orders[i].user_id = UserOf(p)
Stats == Statistics(genres, books, orders, order_items)

\* C8: the step that soft-deletes a genre or a book changes nothing but that
\* row's deleted_at: orders and order items stay as they are, the books of a
\* deleted genre stay as they are, and the statistics over the stored orders
\* are the same after the step as before it.
C8_SoftDeleteOnlyMarks ==
  [][\A p \in Procs :
       /\ (pc[p] = "genre_delete" /\ pc'[p] = "responded") =>
            /\ genres' = [genres EXCEPT ![req[p].id].deleted_at = TRUE]
            /\ books' = books
            /\ orders' = orders /\ order_items' = order_items
            /\ Stats' = Stats
       /\ (pc[p] = "book_delete" /\ pc'[p] = "responded") =>
            /\ books' = [books EXCEPT ![req[p].id].deleted_at = TRUE]
            /\ genres' = genres
            /\ orders' = orders /\ order_items' = order_items
            /\ Stats' = Stats]_vars

\* C8 witness: a genre has just been soft-deleted while a non-deleted book
\* of that genre is an item of a stored order.
C8_Witness ==
  \E p \in Procs, b \in BookIds :
    /\ pc[p] = "responded" /\ resp[p].kind = "genre_removed"
    /\ genres[req[p].id].deleted_at
    /\ books[b] # NoRow /\ ~books[b].deleted_at /\ books[b].genre_id = req[p].id
    /\ \E k \in 1..Len(order_items) : order_items[k].book_id = b
    /\ Stats.most_sold_genre # Null

\* C9: no two non-deleted genres have the same name and no two non-deleted
\* books have the same title.
C9_ActiveNamesUnique ==
  /\ \A g \in GenreIds, h \in GenreIds :
       (g # h /\ Active(genres, g) /\ Active(genres, h))
          => genres[g].name # genres[h].name
  /\ \A a \in BookIds, b \in BookIds :
       (a # b /\ Active(books, a) /\ Active(books, b))
          => books[a].title # books[b].title

\* C10 as stated (its invariant): every non-deleted book references a
\* non-deleted genre.
C10_Original ==
  \A b \in BookIds :
    (books[b] # NoRow /\ ~books[b].deleted_at) =>
       (genres[books[b].genre_id] # NoRow /\ ~genres[books[b].genre_id].deleted_at)

\* C10 amended: a book create request whose genre_id names a genre that is
\* missing or soft-deleted when the handler looks it up is answered 400 and
\* creates no book, whatever its other fields are, and every book references a genre row that exists (a
\* genre soft-deleted later stays referenced by its books).
GenreRowExists ==
  \A b \in BookIds : books[b] # NoRow => genres[books[b].genre_id] # NoRow

C10_BookGenreChecked ==
  /\ GenreRowExists
  /\ [][/\ GenreRowExists'
        /\ \A p \in Procs, d \in BookInputs :
             (/\ pc[p] = "idle"
              /\ req'[p] = [op |-> "book_create", data |-> d]
              /\ (genres[d.genre_id] = NoRow \/ genres[d.genre_id].deleted_at))
             => /\ pc'[p] = "responded"
                /\ resp'[p].status = 400
                /\ db' = db]_vars

\* C10 witness: a book create request naming a soft-deleted genre was
\* rejected.
C10_Witness ==
  \E p \in Procs :
    /\ pc[p] = "responded" /\ req[p].op = "book_create"
    /\ resp[p].kind = "genre_not_found"
    /\ genres[req[p].data.genre_id] # NoRow
    /\ genres[req[p].data.genre_id].deleted_at

\* C11: every Order row has an OrderItem row, every OrderItem row belongs to
\* an Order row and has quantity >= 1; and every step of the application
\* either leaves the orders and the order items exactly as they are, or is
\* the commit of one create-order request, which keeps every existing row in
\* place and appends one Order row together with at least one OrderItem row,
\* all of them items of that new order.
LedgerWellFormed ==
  /\ \A i \in 1..Len(orders) :
       \E k \in 1..Len(order_items) : order_items[k].order_id = orders[i].id
  /\ \A k \in 1..Len(order_items) :
       /\ order_items[k].quantity >= 1
       /\ \E i \in 1..Len(orders) : orders[i].id = order_items[k].order_id

LedgerAppend(p) ==
  /\ pc[p] = "tx_commit" /\ req[p].op = "order"
  /\ Len(orders') = Len(orders) + 1
  /\ SubSeq(orders', 1, Len(orders)) = orders
  /\ \A i \in 1..Len(orders) : orders[i].id # orders'[Len(orders')].id
  /\ Len(order_items') > Len(order_items)
  /\ SubSeq(order_items', 1, Len(order_items)) = order_items
  /\ \A k \in (Len(order_items) + 1)..Len(order_items') :
       order_items'[k].order_id = orders'[Len(orders')].id

C11_AppendOnlyLedger ==
  /\ LedgerWellFormed
  /\ [][/\ LedgerWellFormed'
        /\ \/ orders' = orders /\ order_items' = order_items
           \/ \E p \in Procs : LedgerAppend(p)]_vars

\* C11 witness: an order was committed, and a later request removed or
\* restocked a book that the order's items name.
C11_Witness ==
  \E p \in Procs, q \in Procs :
    /\ Accepted(p)
    /\ pc[q] = "responded" /\ resp[q].kind \in {"book_removed", "book_updated"}
    /\ \E k \in 1..Len(order_items) :
         /\ order_items[k].order_id = resp[p].transaction_id
         /\ order_items[k].book_id = req[q].id

\* C12: the first step of a request without a token, or with a token that
\* does not verify, to any route of the genre, book and transaction routers
\* (and to /auth/me) answers 401 at once, opens no transaction, takes no
\* snapshot of the books and leaves the stored data as they are; a request
\* to /health, /auth/register or /auth/login is never answered with a token
\* error.
TokenErrors == {"missing_token", "invalid_token"}

C12_NoTokenNoHandler ==
  [][\A p \in Procs :
       /\ \A tok \in BadTokens :
            (\/ GenreRequest(p, tok) \/ BookRequest(p, tok)
             \/ TransactionRequest(p, tok) \/ AuthMe(p, tok))
            => /\ pc'[p] = "responded"
               /\ resp'[p].status = 401 /\ resp'[p].kind \in TokenErrors
               /\ db' = db /\ txn' = txn /\ bookMap' = bookMap
       /\ PublicRequest(p) => resp'[p].kind \notin TokenErrors]_vars

\* C12 witness: a request with a bad token was answered 401 while the store
\* held books and committed orders.
C12_Witness ==
  \E p \in Procs :
    /\ pc[p] = "responded" /\ req[p].op = "rejected"
    /\ resp[p].status = 401
    /\ orders # <<>>
    /\ \E b \in BookIds : Active(books, b)

\* C13: a GET /transactions/statistics request that passed requireAuth is
\* answered 200 by the statistics computation, with its four fields, and not
\* by the transaction-detail route.
C13_StatisticsDispatched ==
  \A p \in Procs :
    (/\ pc[p] = "responded" /\ req[p].op = "tx_get"
     /\ req[p].path = StatisticsPath)
    => /\ resp[p].status = 200
       /\ resp[p].kind = "statistics"
       /\ DOMAIN resp[p].data =
            {"total_transactions", "average_nominal_per_transaction",
             "most_sold_genre", "least_sold_genre"}

\* The statistics requests that have been answered.
StatsAnswered == {p \in Procs : pc[p] = "responded" /\ req[p].op = "statistics"}

\* The stored orders that have an item of a book of genre g.
GenreOf(k) == books[order_items[k].book_id].genre_id
ItemIn(k, i) == order_items[k].order_id = orders[i].id
OrdersWithGenre(g) ==
  {i \in 1..Len(orders) : \E k \in 1..Len(order_items) : ItemIn(k, i) /\ GenreOf(k) = g}

\* C14: when the statistics are computed, the count kept for each genre is
\* the number of stored orders with at least one item of a book of that
\* genre, however many such items an order has, and the counts returned with
\* most_sold_genre and least_sold_genre are those of the genres they name.
C14_CountsDistinctOrders ==
  \A p \in StatsAnswered :
    /\ \A g \in GenreIds :
         GenreCount(orders, order_items, books, g) = Cardinality(OrdersWithGenre(g))
    /\ LET most == resp[p].data.most_sold_genre
           least == resp[p].data.least_sold_genre
       IN /\ most # Null => most.count = Cardinality(OrdersWithGenre(most.genre_id))
          /\ least # Null => least.count = Cardinality(OrdersWithGenre(least.genre_id))

\* C14 witness: the statistics were computed over a ledger in which one order
\* has two items of the same genre and another has items of both genres.
C14_Witness ==
  /\ StatsAnswered # {}
  /\ \E i \in 1..Len(orders), k \in 1..Len(order_items), m \in 1..Len(order_items) :
       k # m /\ ItemIn(k, i) /\ ItemIn(m, i) /\ GenreOf(k) = GenreOf(m)
  /\ \E i \in 1..Len(orders), k \in 1..Len(order_items), m \in 1..Len(order_items) :
       ItemIn(k, i) /\ ItemIn(m, i) /\ GenreOf(k) # GenreOf(m)

\* The genres the loop over the orders and their items meets, and whether it
\* meets genre g before genre h.
Counted == {g \in GenreIds : OrdersWithGenre(g) # {}}
MetBefore(g, h) ==
  \E i \in 1..Len(orders), k \in 1..Len(order_items) :
    /\ ItemIn(k, i) /\ GenreOf(k) = g
    /\ \A j \in 1..Len(orders), m \in 1..Len(order_items) :
         (ItemIn(m, j) /\ GenreOf(m) = h) => (i < j \/ (i = j /\ k < m))

\* e is the genre with the best count (the greatest, or the smallest), and
\* of the genres with that count the one met first.
IsFirstBest(e, greater) ==
  /\ e # Null
  /\ e.genre_id \in Counted
  /\ e.count = Cardinality(OrdersWithGenre(e.genre_id))
  /\ \A h \in Counted \ {e.genre_id} :
       LET c == Cardinality(OrdersWithGenre(h))
       IN /\ IF greater THEN c <= e.count ELSE c >= e.count
          /\ c = e.count => MetBefore(e.genre_id, h)

\* C15: the statistics return as most_sold_genre a genre whose count of
\* distinct orders is the greatest and as least_sold_genre one whose count is
\* the smallest, in each case the first such genre the loop over the orders
\* and their items met; both are null when there is no order item.
C15_MostAndLeast ==
  \A p \in StatsAnswered :
    LET most == resp[p].data.most_sold_genre
        least == resp[p].data.least_sold_genre
    IN IF order_items = <<>> THEN most = Null /\ least = Null
       ELSE IsFirstBest(most, TRUE) /\ IsFirstBest(least, FALSE)

\* C15 witness: the statistics were computed over a ledger in which both
\* genres have the same count and the second genre was met first.
C15_Witness ==
  \E p \in StatsAnswered :
    /\ Counted = GenreIds
    /\ Cardinality(OrdersWithGenre("g1")) = Cardinality(OrdersWithGenre("g2"))
    /\ MetBefore("g2", "g1")
    /\ resp[p].data.most_sold_genre.genre_id = "g2"
    /\ resp[p].data.least_sold_genre.genre_id = "g2"

\* The value of the order items k, k + 1, ... at the books' stored prices.
RECURSIVE ValueFrom(_)
ValueFrom(k) ==
  IF k > Len(order_items) THEN 0
  ELSE books[order_items[k].book_id].price * order_items[k].quantity + ValueFrom(k + 1)

\* C16: the statistics return total_transactions equal to the number of
\* stored orders, and average_nominal_per_transaction equal to the value of
\* all order items at the books' stored prices divided by the number of
\* orders, and to 0 when there is no order.
C16_TotalAndAverage ==
  \A p \in StatsAnswered :
    LET avg == resp[p].data.average_nominal_per_transaction
    IN /\ resp[p].data.total_transactions = Len(orders)
       /\ avg.den > 0
       /\ IF orders = <<>> THEN avg.num = 0
          ELSE avg.num * Len(orders) = ValueFrom(1) * avg.den

\* C16 witness: the statistics were computed over two orders, one of them
\* with an item of quantity 2, whose total value is not a multiple of 2.
C16_Witness ==
  \E p \in StatsAnswered :
    /\ Len(orders) = 2
    /\ \E k \in 1..Len(order_items) : order_items[k].quantity = 2
    /\ ValueFrom(1) % 2 = 1
    /\ resp[p].data.average_nominal_per_transaction.num = ValueFrom(1)

\* The stock each book starts with, and the units the stored order items
\* k, k + 1, ... took of book b.
InitialStock(b) == IF b = "b1" THEN MaxStock ELSE 1
RECURSIVE SoldFrom(_, _)
SoldFrom(b, k) ==
  IF k > Len(order_items) THEN 0
  ELSE (IF order_items[k].book_id = b THEN order_items[k].quantity ELSE 0)
       + SoldFrom(b, k + 1)

\* No stored order names one book in two of its items.
OneItemPerBook ==
  \A k \in 1..Len(order_items), m \in 1..Len(order_items) :
    (k # m /\ order_items[k].order_id = order_items[m].order_id)
    => order_items[k].book_id # order_items[m].book_id

\* C17: with create-order requests only, in any interleaving, every book's
\* stock_quantity is its initial stock minus the quantities of all stored
\* OrderItem rows that name it (stated for the orders that name each book in
\* at most one item, so that only another order can have overwritten a
\* decrement).
C17_StockConserved ==
  OneItemPerBook =>
    \A b \in BookIds :
      books[b] # NoRow => books[b].stock_quantity = InitialStock(b) - SoldFrom(b, 1)
====
